---- MODULE Spec2Model ----
(***************************************************************************)
(* Model of scripts/extract_error_messages.py and of the report handling   *)
(* of tools/collect_quality_metrics.py.  First the iterative, stack-based  *)
(* traversal collect_errors_iterative over a parsed JSON document, the     *)
(* (attempt, round) context it threads through the work stack, and the     *)
(* grouped sink it fills.                                                  *)
(*                                                                         *)
(* A document is a heap of container nodes (dict / list) addressed by node *)
(* id; a value is a reference to a container or a scalar.  Strings are     *)
(* drawn from a pool and named by their index in the pool.                 *)
(***************************************************************************)
EXTENDS Integers, Sequences, FiniteSets, TLC

VARIABLES
    heap,      \* the document: node id -> [kind, items]
    stack,     \* work stack of [node, att, rnd] triples (top = last element)
    seen,      \* set of id(node) of every value popped so far
    sink,      \* grouped sink: sequence of [key, entries] in insertion order
    order,     \* history: container nodes in the order they were processed
    emitted,   \* history: one record per sink append, with its provenance
    csvRows,   \* main: the rows of the CSV, each with the file its path names
    blank,     \* main: args.blank
    paths,     \* main: the non-empty stripped path cells, in row order
    idx,       \* main: position of the current document in paths (from 1)
    pc,        \* main: "csv", "open", "walk", "exit" or "raised"
    out_f,     \* main: the lines written to the output file
    total_msgs, \* main: the message counter
    groupedLog, \* history: the grouped result of every document extracted
    ctxs,      \* sorting contexts: the set of contexts to order
    listing,   \* sorting contexts: the sorted list, once computed
    args,      \* collect_quality_metrics: the report paths given
    disk,      \* collect_quality_metrics: the reports at the default places
    step,      \* collect_quality_metrics: position in main
    chosen,    \* collect_quality_metrics: pit_path, jacoco_path, idflakies_input
    result,    \* collect_quality_metrics: the summary being built
    mutations, \* parse_pit_mutations: the mutation elements of the report
    target,    \* parse_pit_mutations: target_class, lowered, or "none"
    pit,       \* parse_pit_mutations: the record returned, once computed
    csvDir,    \* write_csv_summary: the directory part of csv_path
    dirs,      \* write_csv_summary: the directories that exist
    csvFile,   \* write_csv_summary: the rows of the file at csv_path
    runs,      \* write_csv_summary: number of runs so far
    made,      \* history: the directories created by the runs
    existed    \* history: the file at csv_path existed before the first run

travVars == <<heap, stack, seen, sink, order, emitted>>

batchVars == <<csvRows, blank, paths, idx, pc, out_f, total_msgs, groupedLog>>

sortVars == <<ctxs, listing>>

metVars == <<args, disk, step, chosen, result>>

pitVars == <<mutations, target, pit>>

csvVars == <<csvDir, dirs, csvFile, runs, made, existed>>

vars == <<travVars, batchVars, sortVars, metVars, pitVars, csvVars>>

----------------------------------------------------------------------------
(* Bounds of the explored documents *)

MaxNodes == 3

MaxAttempt == 2

MaxMsgs == 2

----------------------------------------------------------------------------
(* Values.  t is the Python type of the value, v its payload (node id of a *)
(* container, the number, 0/1 of a bool, the index of a string in the      *)
(* pool), o tells apart distinct str/float objects holding equal payloads. *)

Ref(i) == [t |-> "ref", v |-> i, o |-> 0]

PyInt(i) == [t |-> "int", v |-> i, o |-> 0]

PyBool(b) == [t |-> "bool", v |-> b, o |-> 0]

PyStr(s, occ) == [t |-> "str", v |-> s, o |-> occ]

PyFloat(f, occ) == [t |-> "float", v |-> f, o |-> occ]

None == [t |-> "null", v |-> 0, o |-> 0]

\* id(node): containers by node id; None, booleans and small integers are
\* singletons; every str/float occurrence is an object of its own.
IdOf(x) ==
    IF x.t \in {"str", "float"} THEN [k |-> x.t, n |-> x.o]
    ELSE [k |-> x.t, n |-> x.v]

\* isinstance(x, dict) / isinstance(x, list)
IsDict(h, x) == x.t = "ref" /\ h[x.v].kind = "dict"

IsList(h, x) == x.t = "ref" /\ h[x.v].kind = "list"

\* isinstance(x, str)
IsStr(x) == x.t = "str"

\* isinstance(x, int): bool is a subclass of int in Python
IsInstanceInt(x) == x.t \in {"int", "bool"}

----------------------------------------------------------------------------
(* dict access *)

\* key in node
HasKey(d, key) == \E i \in 1..Len(d.items) : d.items[i][1] = key

\* node[key]
Item(d, key) ==
    LET i == CHOOSE j \in 1..Len(d.items) : d.items[j][1] = key
    IN d.items[i][2]

\* node.get(key): None when the key is absent
Get(d, key) == IF HasKey(d, key) THEN Item(d, key) ELSE None

----------------------------------------------------------------------------
(* _iter_strings *)

\* faulty variant: the elements of a list are yielded without the str test
iter_strings_unfiltered(h, x) ==
    IF IsStr(x) THEN <<x>>
    ELSE IF IsList(h, x) THEN h[x.v].items
    ELSE <<>>

iter_strings(h, x) ==
    IF IsStr(x) THEN <<x>>
    ELSE IF IsList(h, x) THEN SelectSeq(h[x.v].items, IsStr)
    ELSE <<>>

----------------------------------------------------------------------------
(* Grouped sink: a defaultdict(list) keyed by (attempt, round).            *)

\* Python equality of two context components: None = None, True = 1
PyEq(a, b) ==
    \/ a.t = "null" /\ b.t = "null"
    \/ a.t # "null" /\ b.t # "null" /\ a.v = b.v

KeyEq(k1, k2) == PyEq(k1[1], k2[1]) /\ PyEq(k1[2], k2[2])

HasGroup(s, key) == \E i \in 1..Len(s) : KeyEq(s[i].key, key)

GroupIndex(s, key) == CHOOSE i \in 1..Len(s) : KeyEq(s[i].key, key)

\* sink[key].append(e): the group is created on first access
SinkAppend(s, key, e) ==
    IF HasGroup(s, key)
    THEN [s EXCEPT ![GroupIndex(s, key)].entries = Append(@, e)]
    ELSE Append(s, [key |-> key, entries |-> <<e>>])

RECURSIVE SinkAppendAllEager(_, _, _)
\* faulty variant: the group is looked up before the loop over the strings,
\* so that it is created even when the message yields none
SinkAppendAllEager(s, key, es) ==
    IF es = <<>>
    THEN (IF HasGroup(s, key) THEN s ELSE Append(s, [key |-> key, entries |-> <<>>]))
    ELSE SinkAppendAllEager(SinkAppend(s, key, Head(es)), key, Tail(es))

RECURSIVE SinkAppendAll(_, _, _)
SinkAppendAll(s, key, es) ==
    IF es = <<>> THEN s
    ELSE SinkAppendAll(SinkAppend(s, key, Head(es)), key, Tail(es))

----------------------------------------------------------------------------
(* One iteration of the while loop of collect_errors_iterative             *)

Top == stack[Len(stack)]

\* faulty variant: the top is read but left on the stack
PopPeek(s) == s

\* stack.pop()

Pop(s) == SubSeq(s, 1, Len(s) - 1)

\* faulty variant: an integer attempt inside the errorMsg child overrides too
EffAttInner(d, att) ==
    IF IsDict(heap, Get(d, "errorMsg"))
       /\ IsInstanceInt(Get(heap[Get(d, "errorMsg").v], "attempt"))
    THEN Item(heap[Get(d, "errorMsg").v], "attempt")
    ELSE IF IsInstanceInt(Get(d, "attempt")) THEN Item(d, "attempt") ELSE att

\* effective context of a dict node
EffAtt(d, att) ==
    IF IsInstanceInt(Get(d, "attempt")) THEN Item(d, "attempt") ELSE att

EffRnd(d, rnd) ==
    IF HasKey(d, "round")
       /\ (IsInstanceInt(Item(d, "round")) \/ Item(d, "round") = None)
    THEN Item(d, "round") ELSE rnd

\* the condition under which a (errorType, errorMessage) pair is read from x
PairUsable(h, x) ==
    /\ IsDict(h, x)
    /\ IsStr(Get(h[x.v], "errorType"))
    /\ Get(h[x.v], "errorMessage") # None

\* extracted_from_errmsg_child
ExtractedFromErrmsgChild(h, d) == PairUsable(h, Get(d, "errorMsg"))

\* faulty variant: the direct pair is read even after the errorMsg child
UseFallbackAlways(h, n) == TRUE

\* line 86: the fallback to the direct pair of dict node n

UseFallback(h, n) == ~ExtractedFromErrmsgChild(h, h[n])

\* the message strings appended for the pair carried by container x
PairStrings(h, x) ==
    IF PairUsable(h, x)
    THEN iter_strings(h, Get(h[x.v], "errorMessage"))
    ELSE <<>>

\* the (errorType, message) entries read from container x
PairEntries(h, x) ==
    [i \in 1..Len(PairStrings(h, x)) |->
        <<Get(h[x.v], "errorType").v, PairStrings(h, x)[i].v>>]

\* entries appended while dict node n is processed
NodeEntries(h, n) ==
    (IF ExtractedFromErrmsgChild(h, h[n])
     THEN PairEntries(h, Get(h[n], "errorMsg")) ELSE <<>>)
    \o (IF UseFallback(h, n) THEN PairEntries(h, Ref(n)) ELSE <<>>)

\* provenance of those entries
NodeSources(h, n) ==
    (IF ExtractedFromErrmsgChild(h, h[n])
     THEN [i \in 1..Len(PairEntries(h, Get(h[n], "errorMsg"))) |->
              [src |-> Get(h[n], "errorMsg").v, via |-> "errorMsg", idx |-> i]]
     ELSE <<>>)
    \o (IF UseFallback(h, n)
        THEN [i \in 1..Len(PairEntries(h, Ref(n))) |->
                 [src |-> n, via |-> "own", idx |-> i]]
        ELSE <<>>)

\* faulty variant: a used errorMsg child is pushed like any other value
KeepAll(h, d, it) == TRUE

\* children pushed by a dict node: every value except a used errorMsg child

Keep(h, d, it) == ~(ExtractedFromErrmsgChild(h, d) /\ it[1] = "errorMsg")

PushedItems(h, d) ==
    LET keep(it) == Keep(h, d, it)
    IN SelectSeq(d.items, keep)

Triple(x, att, rnd) == [node |-> x, att |-> att, rnd |-> rnd]

\* the triples pushed for the children; the context is passed by value
DictPushes(h, d, att, rnd) ==
    [i \in 1..Len(PushedItems(h, d)) |->
        Triple(PushedItems(h, d)[i][2], att, rnd)]

\* faulty variant: list items are not pushed
ListPushesNone(h, l, att, rnd) == <<>>

\* lines 101-102: every list item, with the context of the list

ListPushes(h, l, att, rnd) ==
    [i \in 1..Len(l.items) |-> Triple(l.items[i], att, rnd)]

\* faulty variant: the context is one shared cell, so an override rewrites
\* the triples waiting on the stack
NextStackShared(s, pushes) ==
    [i \in 1..(Len(s) - 1) |->
        IF pushes = <<>> THEN s[i]
        ELSE [s[i] EXCEPT !.att = pushes[1].att, !.rnd = pushes[1].rnd]]
    \o pushes

\* faulty variant: the children are pushed in reverse declaration order
NextStackReversed(s, pushes) ==
    Pop(s) \o [i \in 1..Len(pushes) |-> pushes[Len(pushes) + 1 - i]]

\* the stack after the iteration: the popped triple is gone, the triples
\* below it are untouched, the pushes are on top
NextStack(s, pushes) == Pop(s) \o pushes

\* faulty variant: no visited check
SkipNever(s, x) == FALSE

\* lines 62-64: the popped node was seen before

Skip(s, x) == IdOf(x) \in s

PopSeen ==
    /\ stack # <<>>
    /\ Skip(seen, Top.node)
    /\ stack' = NextStack(stack, <<>>)
    /\ UNCHANGED <<heap, seen, sink, order, emitted>>
    /\ UNCHANGED <<batchVars, sortVars, metVars>>
    /\ UNCHANGED <<pitVars, csvVars>>

\* lines 67-97
VisitDict ==
    /\ stack # <<>>
    /\ ~Skip(seen, Top.node)
    /\ IsDict(heap, Top.node)
    /\ LET n   == Top.node.v
           d   == heap[n]
           att == EffAtt(d, Top.att)
           rnd == EffRnd(d, Top.rnd)
           es  == NodeEntries(heap, n)
           pr  == NodeSources(heap, n)
       IN /\ seen' = seen \cup {IdOf(Top.node)}
          /\ sink' = SinkAppendAll(sink, <<att, rnd>>, es)
          /\ stack' = NextStack(stack, DictPushes(heap, d, att, rnd))
          /\ order' = Append(order, n)
          /\ emitted' = emitted \o
                [i \in 1..Len(es) |->
                    [host |-> n, src |-> pr[i].src, via |-> pr[i].via,
                     idx |-> pr[i].idx, key |-> <<att, rnd>>, entry |-> es[i]]]
    /\ UNCHANGED heap
    /\ UNCHANGED <<batchVars, sortVars, metVars>>
    /\ UNCHANGED <<pitVars, csvVars>>

\* lines 99-102
VisitList ==
    /\ stack # <<>>
    /\ ~Skip(seen, Top.node)
    /\ IsList(heap, Top.node)
    /\ seen' = seen \cup {IdOf(Top.node)}
    /\ stack' = NextStack(stack, ListPushes(heap, heap[Top.node.v], Top.att, Top.rnd))
    /\ order' = Append(order, Top.node.v)
    /\ UNCHANGED <<heap, sink, emitted>>
    /\ UNCHANGED <<batchVars, sortVars, metVars>>
    /\ UNCHANGED <<pitVars, csvVars>>

\* line 103
VisitScalar ==
    /\ stack # <<>>
    /\ ~Skip(seen, Top.node)
    /\ Top.node.t # "ref"
    /\ seen' = seen \cup {IdOf(Top.node)}
    /\ stack' = NextStack(stack, <<>>)
    /\ UNCHANGED <<heap, sink, order, emitted>>
    /\ UNCHANGED <<batchVars, sortVars, metVars>>
    /\ UNCHANGED <<pitVars, csvVars>>

Next == PopSeen \/ VisitDict \/ VisitList \/ VisitScalar

----------------------------------------------------------------------------
(* Documents.  A document is described by a shape: the container nodes     *)
(* 1..n with node 1 the root, the parent of every other node and the key   *)
(* it hangs under, the scalar fields of every dict, and at most one extra  *)
(* reference (alias) that makes a node reachable a second time.            *)

Absent == [t |-> "absent", v |-> 0, o |-> 0]

NoAlias == [from |-> 0, to |-> 0, slot |-> "kid"]

Field(key, val) == IF val = Absent THEN <<>> ELSE << <<key, val>> >>

\* keys of ordinary children, by child id
KidKey(c) == <<"k1", "k2", "k3", "k4", "k5", "k6">>[c]

\* a scalar choice placed in node i: str/float objects get their own identity
Place(val, i, f) ==
    IF val.t \in {"str", "float"} THEN [val EXCEPT !.o = 10 * i + f] ELSE val

\* id of the list node holding the errorMessage array of node i
MsgList(sh, i) == sh.n + i

\* the errorMessage array: MaxMsgs strings, each followed by a number
MsgItems(i) ==
    [j \in 1..(2 * MaxMsgs) |->
        IF j % 2 = 0 THEN PyInt(7)
        ELSE PyStr(10 * i + (j + 1) \div 2, 100 * i + j)]

\* the errorMessage value of node i for the choice m
MsgValue(sh, i, m) ==
    IF m = "list" THEN Ref(MsgList(sh, i))
    ELSE IF m = "str" THEN PyStr(10 * i, 10 * i + 4)
    ELSE IF m = "int" THEN PyInt(7)
    ELSE IF m = "bool" THEN PyBool(1)
    ELSE IF m = "null" THEN None
    ELSE Absent

\* the errorType value of node i for the choice e
TypeValue(i, e) ==
    IF e = "str" THEN PyStr(i, 10 * i + 3)
    ELSE IF e = "int" THEN PyInt(7)
    ELSE Absent

RECURSIVE KidFields(_, _, _)
KidFields(sh, i, c) ==
    IF c > sh.n THEN <<>>
    ELSE (IF sh.par[c] = i /\ sh.slot[c] = "kid"
          THEN << <<KidKey(c), Ref(c)>> >> ELSE <<>>)
         \o KidFields(sh, i, c + 1)

\* the value stored under key (attempt, round, errorMsg or errorMessage) of
\* node i:
\* a child hanging under that key, else the alias, else the scalar choice
Slotted(sh, i, key, val) ==
    IF \E c \in 2..sh.n : sh.par[c] = i /\ sh.slot[c] = key
    THEN Ref(CHOOSE c \in 2..sh.n : sh.par[c] = i /\ sh.slot[c] = key)
    ELSE IF sh.alias.from = i /\ sh.alias.slot = key
    THEN Ref(sh.alias.to)
    ELSE val

DictItems(sh, i) ==
    Field("attempt", Slotted(sh, i, "attempt", Place(sh.prof[i].att, i, 1)))
    \o Field("round", Slotted(sh, i, "round", Place(sh.prof[i].rnd, i, 2)))
    \o Field("errorMsg", Slotted(sh, i, "errorMsg", Absent))
    \o Field("errorType", TypeValue(i, sh.prof[i].etype))
    \o Field("errorMessage",
             Slotted(sh, i, "errorMessage", MsgValue(sh, i, sh.prof[i].emsg)))
    \o KidFields(sh, i, 2)
    \o (IF sh.alias.from = i /\ sh.alias.slot = "kid"
        THEN << <<"x", Ref(sh.alias.to)>> >> ELSE <<>>)

RECURSIVE ListKids(_, _, _)
ListKids(sh, i, c) ==
    IF c > sh.n THEN <<>>
    ELSE (IF sh.par[c] = i THEN <<Ref(c)>> ELSE <<>>) \o ListKids(sh, i, c + 1)

ListItems(sh, i) ==
    ListKids(sh, i, 2)
    \o (IF sh.alias.from = i THEN <<Ref(sh.alias.to)>> ELSE <<>>)

\* the heap of the document of shape sh
Build(sh) ==
    [i \in (1..sh.n) \cup {MsgList(sh, j) : j \in {k \in 1..sh.n :
                              sh.prof[k].kind = "dict" /\ sh.prof[k].emsg = "list"}} |->
        IF i > sh.n
        THEN [kind |-> "list", items |-> MsgItems(i - sh.n)]
        ELSE IF sh.prof[i].kind = "dict"
        THEN [kind |-> "dict", items |-> DictItems(sh, i)]
        ELSE [kind |-> "list", items |-> ListItems(sh, i)]]

ListProf ==
    [kind |-> "list", att |-> Absent, rnd |-> Absent,
     etype |-> "absent", emsg |-> "absent"]

DictProf(c, e) ==
    [kind |-> "dict", att |-> c[1], rnd |-> c[2], etype |-> e[1], emsg |-> e[2]]

\* parents come first: node c hangs under one of 1..c-1
Parents(n) == {p \in [2..n -> 1..n] : \A c \in 2..n : p[c] < c}

\* the keys the children hang under: keys are unique within a parent, and
\* at most special children hang under a key other than an ordinary one
Skeletons(n, Slots, special) ==
    {sk \in Parents(n) \X [2..n -> Slots] :
        /\ Cardinality({c \in 2..n : sk[2][c] # "kid"}) <= special
        /\ \A c, c2 \in 2..n :
              (c # c2 /\ sk[1][c] = sk[1][c2] /\ sk[2][c] # "kid")
                 => sk[2][c2] # sk[2][c]}

\* every node takes a profile of Base, or one node takes a profile of Rich
\* and the others one of Few
ProfsOf(n, Base, Few, Rich) ==
    [1..n -> Base]
    \cup {[f EXCEPT ![i] = r] : f \in [1..n -> Few], i \in 1..n, r \in Rich}

Shape(n, sk, f, a) == [n |-> n, par |-> sk[1], slot |-> sk[2], prof |-> f, alias |-> a]

----------------------------------------------------------------------------
(* The families of documents explored *)

OwnPair == <<"str", "str">>

\* context fields every dict may carry, as (attempt, round)
CtxBase ==
    {<<Absent, Absent>>, <<Absent, PyInt(1)>>, <<Absent, None>>}
    \cup {<<PyInt(a), Absent>> : a \in 1..MaxAttempt}

CtxFew == {<<Absent, Absent>>, <<Absent, PyInt(1)>>, <<PyInt(1), Absent>>}

\* context fields of other types
CtxRich ==
    {<<PyBool(1), Absent>>, <<PyStr(8, 0), PyStr(9, 0)>>, <<None, PyBool(0)>>,
     <<PyFloat(1, 0), PyFloat(2, 0)>>}

\* trees whose dicts carry an own pair and vary in their context fields;
\* one node may have context fields of another type or be a list, or one
\* child may hang under the key attempt or round
CtxDocs(h, m) ==
    \E n \in 1..m :
        \/ \E sk \in Skeletons(n, {"kid"}, 0),
              f \in ProfsOf(n, {DictProf(c, OwnPair) : c \in CtxBase},
                            {DictProf(c, OwnPair) : c \in CtxFew},
                            {ListProf} \cup {DictProf(c, OwnPair) : c \in CtxRich}) :
                h = Build(Shape(n, sk, f, NoAlias))
        \/ \E sk \in Skeletons(n, {"kid", "attempt", "round"}, 1),
              f \in [1..n -> {DictProf(c, OwnPair) : c \in CtxFew}] :
                /\ \E c \in 2..n : sk[2][c] # "kid"
                /\ h = Build(Shape(n, sk, f, NoAlias))

\* error fields every dict may carry, as (errorType, errorMessage)
ErrBase == {<<"absent", "absent">>, OwnPair}

\* error fields of other shapes
ErrRich ==
    {<<"str", "list">>, <<"str", "int">>, <<"str", "bool">>, <<"str", "null">>,
     <<"int", "str">>}

\* trees whose dicts vary in their error fields and errorMsg children
ErrDocs(h, m) ==
    \E n \in 1..m :
        \E sk \in Skeletons(n, {"kid", "errorMsg", "errorMessage"}, n),
           f \in ProfsOf(n, {DictProf(<<Absent, Absent>>, e) : e \in ErrBase},
                         {DictProf(<<Absent, Absent>>, e) : e \in ErrBase},
                         {ListProf} \cup {DictProf(<<Absent, Absent>>, e) : e \in ErrRich}) :
            h = Build(Shape(n, sk, f, NoAlias))

\* graphs: a tree plus at most one extra reference to any node
GraphDocs(h, m) ==
    \E n \in 1..m :
        \E sk \in Skeletons(n, {"kid", "errorMsg"}, 1),
           f \in ProfsOf(n, {DictProf(<<Absent, Absent>>, OwnPair)},
                         {DictProf(<<Absent, Absent>>, OwnPair)},
                         {ListProf, DictProf(<<PyInt(1), Absent>>, OwnPair)}),
           a \in {NoAlias} \cup {[from |-> x, to |-> y, slot |-> k] :
                        x \in 1..n, y \in 1..n, k \in {"kid", "errorMsg"}} :
            h = Build(Shape(n, sk, f, a))

\* context fields of the documents with errorMsg containers
BoxCtx ==
    {<<Absent, Absent>>, <<PyInt(1), Absent>>, <<PyInt(2), PyInt(2)>>,
     <<PyBool(1), None>>}

\* trees of dicts with own pairs and context fields, one node possibly a
\* list, whose children hang under ordinary keys or under errorMsg
BoxDocs(h, m) ==
    \E n \in 1..m :
        \E sk \in Skeletons(n, {"kid", "errorMsg"}, n),
           f \in ProfsOf(n, {DictProf(c, OwnPair) : c \in BoxCtx},
                         {DictProf(c, OwnPair) : c \in BoxCtx}, {ListProf}) :
            h = Build(Shape(n, sk, f, NoAlias))

\* state on entry to the loop: stack = [(root, None, None)], seen = set()
Start ==
    /\ stack = <<Triple(Ref(1), None, None)>>
    /\ seen = {}
    /\ sink = <<>>
    /\ order = <<>>
    /\ emitted = <<>>

\* the variables of main while a single traversal is explored
IdleBatch ==
    /\ csvRows = <<>> /\ blank = FALSE /\ paths = <<>> /\ idx = 0
    /\ pc = "walk" /\ out_f = <<>> /\ total_msgs = 0 /\ groupedLog = <<>>

IdleSort == ctxs = {} /\ listing = <<>>

IdleMet == args = <<>> /\ disk = <<>> /\ step = "idle" /\ chosen = <<>> /\ result = <<>>

IdlePit == mutations = <<>> /\ target = "none" /\ pit = <<>>

IdleCsv ==
    /\ csvDir = <<>> /\ dirs = {} /\ csvFile = <<>> /\ runs = 0 /\ made = {}
    /\ existed = FALSE

IdleTrav ==
    /\ heap = <<>> /\ stack = <<>> /\ seen = {} /\ sink = <<>>
    /\ order = <<>> /\ emitted = <<>>

InitCtx == CtxDocs(heap, MaxNodes) /\ Start /\ IdleBatch /\ IdleSort /\ IdleMet /\ IdlePit /\ IdleCsv

InitErr == ErrDocs(heap, MaxNodes) /\ Start /\ IdleBatch /\ IdleSort /\ IdleMet /\ IdlePit /\ IdleCsv

InitGraph == GraphDocs(heap, MaxNodes) /\ Start /\ IdleBatch /\ IdleSort /\ IdleMet /\ IdlePit /\ IdleCsv

InitBox == BoxDocs(heap, MaxNodes) /\ Start /\ IdleBatch /\ IdleSort /\ IdleMet /\ IdlePit /\ IdleCsv

SpecBox == InitBox /\ [][Next]_vars

SpecCtx == InitCtx /\ [][Next]_vars

SpecErr == InitErr /\ [][Next]_vars

SpecGraph == InitGraph /\ [][Next]_vars

SpecGraphFair == InitGraph /\ [][Next]_vars /\ WF_vars(Next)

----------------------------------------------------------------------------
(* Notions the properties are stated with *)

\* the values held by container n, in declaration order
Vals(h, n) ==
    IF h[n].kind = "dict"
    THEN [i \in 1..Len(h[n].items) |-> h[n].items[i][2]]
    ELSE h[n].items

\* the containers referenced by container n
Kids(h, n) == {Vals(h, n)[i].v : i \in {j \in 1..Len(Vals(h, n)) : Vals(h, n)[j].t = "ref"}}

\* number of references to container m in the document
RefCount(h, m) ==
    Cardinality({r \in UNION {{<<n, i>> : i \in 1..Len(Vals(h, n))} : n \in DOMAIN h} :
                    Vals(h, r[1])[r[2]] = Ref(m)})

RECURSIVE Closure(_, _)
Closure(h, S) ==
    LET T == S \cup UNION {Kids(h, n) : n \in S}
    IN IF T = S THEN S ELSE Closure(h, T)

\* the containers reachable from n by one or more references
Desc(h, n) == Closure(h, Kids(h, n))

HasCycle(h) == \E n \in DOMAIN h : n \in Desc(h, n)

\* a container with two parents in a document without cycles
HasDiamond(h) == ~HasCycle(h) /\ \E m \in DOMAIN h : RefCount(h, m) >= 2

\* number of times container n was processed
Processed(n) == Cardinality({i \in 1..Len(order) : order[i] = n})

Dicts(h) == {n \in DOMAIN h : h[n].kind = "dict"}

\* every container but the root is referenced exactly once
IsTree(h) == \A m \in DOMAIN h : RefCount(h, m) = (IF m = 1 THEN 0 ELSE 1)

ParentOf(h, m) == CHOOSE n \in DOMAIN h : m \in Kids(h, n)

\* the message strings of a message field: the string itself, or the
\* string elements of the array
MessageStrings(h, x) ==
    IF x.t = "str" THEN {x.v}
    ELSE IF x.t = "ref" /\ h[x.v].kind = "list"
    THEN {h[x.v].items[i].v : i \in {j \in 1..Len(h[x.v].items) : h[x.v].items[j].t = "str"}}
    ELSE {}

StringOrArray(h, x) == x.t = "str" \/ (x.t = "ref" /\ h[x.v].kind = "list")

\* container n directly carries a string errorType and a string or array
\* errorMessage
CarriesPair(h, n) ==
    /\ h[n].kind = "dict"
    /\ HasKey(h[n], "errorType") /\ Item(h[n], "errorType").t = "str"
    /\ HasKey(h[n], "errorMessage") /\ StringOrArray(h, Item(h[n], "errorMessage"))

\* rule 1 as specified: the errorMsg child of n is an object carrying a pair
QualifyingContainer(h, n) ==
    /\ h[n].kind = "dict"
    /\ HasKey(h[n], "errorMsg") /\ Item(h[n], "errorMsg").t = "ref"
    /\ CarriesPair(h, Item(h[n], "errorMsg").v)

\* rule 1 as the code applies it: the errorMsg child of n is an object with
\* a string errorType and an errorMessage that is anything but null
UsesContainer(h, n) ==
    /\ h[n].kind = "dict"
    /\ HasKey(h[n], "errorMsg") /\ Item(h[n], "errorMsg").t = "ref"
    /\ LET c == h[Item(h[n], "errorMsg").v]
       IN /\ c.kind = "dict"
          /\ HasKey(c, "errorType") /\ Item(c, "errorType").t = "str"
          /\ HasKey(c, "errorMessage") /\ Item(c, "errorMessage").t # "null"

\* the containers the traversal walks into from n: all it references, but
\* not an errorMsg child it has used
WalkKids(h, n) ==
    IF UsesContainer(h, n) THEN Kids(h, n) \ {Item(h[n], "errorMsg").v}
    ELSE Kids(h, n)

RECURSIVE WalkClosure(_, _)
WalkClosure(h, S) ==
    LET T == S \cup UNION {WalkKids(h, n) : n \in S}
    IN IF T = S THEN S ELSE WalkClosure(h, T)

Walked(h) == WalkClosure(h, {1})

SinkEntries == UNION {{sink[g].entries[i] : i \in 1..Len(sink[g].entries)} : g \in 1..Len(sink)}

\* the records of the entries appended while container n was processed
RecordsAt(n) == {i \in 1..Len(emitted) : emitted[i].host = n}

\* the records of the entries read from the pair of container c
RecordsFrom(c) == {i \in 1..Len(emitted) : emitted[i].src = c}

\* context of the nearest ancestor-or-self object with an integer attempt
RECURSIVE NearestAttempt(_, _)
NearestAttempt(h, n) ==
    IF h[n].kind = "dict" /\ HasKey(h[n], "attempt")
       /\ Item(h[n], "attempt").t = "int"
    THEN Item(h[n], "attempt")
    ELSE IF n = 1 THEN None ELSE NearestAttempt(h, ParentOf(h, n))

\* ... and with a round that is an integer or an explicit null
RECURSIVE NearestRound(_, _)
NearestRound(h, n) ==
    IF h[n].kind = "dict" /\ HasKey(h[n], "round")
       /\ Item(h[n], "round").t \in {"int", "null"}
    THEN Item(h[n], "round")
    ELSE IF n = 1 THEN None ELSE NearestRound(h, ParentOf(h, n))

----------------------------------------------------------------------------
(* C1: on every finite document graph, diamonds and cycles included, the   *)
(* traversal terminates: the work stack eventually becomes empty.          *)
Terminates == <>(stack = <<>>)

CyclicTraversalDone == stack = <<>> /\ HasCycle(heap) /\ Len(order) >= 2

(* C2: every container is processed (context update, extraction, pushing   *)
(* of children) at most once per traversal, and popping a value that was   *)
(* seen before changes nothing but the stack, which loses its top.         *)
ProcessedAtMostOnce ==
    /\ [](\A n \in DOMAIN heap : Processed(n) <= 1)
    /\ [][(stack # <<>> /\ IdOf(Top.node) \in seen) =>
             /\ stack' = SubSeq(stack, 1, Len(stack) - 1)
             /\ sink' = sink /\ emitted' = emitted
             /\ order' = order /\ seen' = seen]_vars

DiamondTraversalDone ==
    /\ stack = <<>>
    /\ HasDiamond(heap)
    /\ \E m \in DOMAIN heap : RefCount(heap, m) >= 2 /\ Processed(m) = 1

(* C3: no container contributes its (errorType, message) entries to the    *)
(* sink twice in one traversal, whether it is reached as the errorMsg      *)
(* child of one or several parents, as an ordinary child, or both.         *)
NoDuplicateEmission ==
    \A i, j \in 1..Len(emitted) :
        (emitted[i].src = emitted[j].src /\ emitted[i].idx = emitted[j].idx)
            => i = j

EntriesUnderNearestContext ==
    \A i \in 1..Len(emitted) :
        emitted[i].key = <<NearestAttempt(heap, emitted[i].host),
                           NearestRound(heap, emitted[i].host)>>

(* C6: an attempt field that is not an integer leaves the inherited        *)
(* attempt unchanged, and a round field that is neither an integer nor     *)
(* null leaves the inherited round unchanged, for the entries of the node  *)
(* and for the triples it pushes.                                          *)
OnlyAcceptedTypesOverride ==
    [][(stack # <<>> /\ IdOf(Top.node) \notin seen /\ IsDict(heap, Top.node)) =>
          LET d == heap[Top.node.v]
          IN /\ (HasKey(d, "attempt") /\ Item(d, "attempt").t # "int") =>
                   /\ \A i \in Len(stack)..Len(stack') : stack'[i].att = Top.att
                   /\ \A i \in (Len(emitted) + 1)..Len(emitted') :
                         emitted'[i].key[1] = Top.att
             /\ (HasKey(d, "round") /\ Item(d, "round").t \notin {"int", "null"}) =>
                   /\ \A i \in Len(stack)..Len(stack') : stack'[i].rnd = Top.rnd
                   /\ \A i \in (Len(emitted) + 1)..Len(emitted') :
                         emitted'[i].key[2] = Top.rnd]_vars

(* C7: a context override reaches only the overriding object and what it   *)
(* pushes: the triples already on the stack keep the context they were     *)
(* pushed with, and entries recorded earlier stay in the group and under   *)
(* the context they were recorded with.                                    *)
OverrideStaysInBranch ==
    [][stack # <<>> =>
          /\ Len(stack') >= Len(stack) - 1
          /\ \A i \in 1..(Len(stack) - 1) : stack'[i] = stack[i]
          /\ Len(sink') >= Len(sink)
          /\ \A g \in 1..Len(sink) :
                /\ sink'[g].key = sink[g].key
                /\ Len(sink'[g].entries) >= Len(sink[g].entries)
                /\ \A i \in 1..Len(sink[g].entries) :
                      sink'[g].entries[i] = sink[g].entries[i]
          /\ Len(emitted') >= Len(emitted)
          /\ \A i \in 1..Len(emitted) : emitted'[i] = emitted[i]]_vars

SiblingKeepsContext ==
    \E i, j \in 1..Len(stack) :
        /\ i < j
        /\ stack[i].node.t = "ref"
        /\ <<stack[i].att, stack[i].rnd>> # <<stack[j].att, stack[j].rnd>>
        /\ \E k \in 1..Len(emitted) :
              emitted[k].key = <<stack[j].att, stack[j].rnd>>

(* C8: an object with both a qualifying errorMsg container and its own     *)
(* direct errorType/errorMessage fields emits entries from the container   *)
(* only: as many as the container's message has strings, none from its own *)
(* fields.                                                                 *)
ContainerTakesPrecedence ==
    \A n \in Dicts(heap) :
        (/\ Processed(n) = 1
         /\ QualifyingContainer(heap, n)
         /\ HasKey(heap[n], "errorType") /\ HasKey(heap[n], "errorMessage")) =>
            LET c == Item(heap[n], "errorMsg").v
            IN /\ \A i \in RecordsAt(n) :
                     /\ emitted[i].via = "errorMsg"
                     /\ emitted[i].src = c
                     /\ emitted[i].entry[1] = Item(heap[c], "errorType").v
                     /\ emitted[i].entry[2] \in
                           MessageStrings(heap, Item(heap[c], "errorMessage"))
               /\ Cardinality(RecordsAt(n)) =
                     Cardinality(MessageStrings(heap, Item(heap[c], "errorMessage")))

ContainerPreferredOverOwnPair ==
    \E n \in Dicts(heap) :
        /\ Processed(n) = 1
        /\ QualifyingContainer(heap, n)
        /\ CarriesPair(heap, n)
        /\ Cardinality(RecordsAt(n)) >= 2

(* C9: an object to which rule 1 does not apply (errorMsg absent, not an   *)
(* object, without a string errorType, or without a string or array        *)
(* errorMessage) and that directly carries a string errorType and a string *)
(* or array errorMessage emits one entry per own message string, with its  *)
(* own errorType.                                                          *)
FallbackWheneverNoContainer ==
    \A n \in Dicts(heap) :
        (Processed(n) = 1 /\ ~QualifyingContainer(heap, n) /\ CarriesPair(heap, n)) =>
            /\ \A i \in RecordsAt(n) :
                  /\ emitted[i].via = "own"
                  /\ emitted[i].entry[1] = Item(heap[n], "errorType").v
            /\ {emitted[i].entry[2] : i \in RecordsAt(n)} =
                  MessageStrings(heap, Item(heap[n], "errorMessage"))

(* C10: an errorMsg container used by rule 1 is not pushed by its parent;  *)
(* in a tree-shaped document it is never visited, its pair is extracted    *)
(* exactly once, and nothing nested inside it yields an entry.             *)
UsedContainerNotWalked ==
    IsTree(heap) =>
        \A n \in Dicts(heap) :
            (Processed(n) = 1 /\ UsesContainer(heap, n)) =>
                LET c == Item(heap[n], "errorMsg").v
                IN /\ \A i \in 1..Len(stack) : stack[i].node # Ref(c)
                   /\ Processed(c) = 0
                   /\ IdOf(Ref(c)) \notin seen
                   /\ \A i \in RecordsFrom(c) : emitted[i].host = n
                   /\ Cardinality(RecordsFrom(c)) =
                         Cardinality(MessageStrings(heap, Item(heap[c], "errorMessage")))
                   /\ \A m \in Desc(heap, c) :
                         /\ Processed(m) = 0
                         /\ RecordsAt(m) = {} /\ RecordsFrom(m) = {}

NestedPairInsideUsedContainer ==
    /\ stack = <<>> /\ IsTree(heap)
    /\ \E n \in Dicts(heap) :
          /\ Processed(n) = 1 /\ UsesContainer(heap, n)
          /\ RecordsFrom(Item(heap[n], "errorMsg").v) # {}
          /\ \E m \in Desc(heap, Item(heap[n], "errorMsg").v) : CarriesPair(heap, m)

----------------------------------------------------------------------------
(* Python ordering of the values that occur in sort keys, _sort_key, and   *)
(* sorted(..., key=_sort_key)                                              *)

PyTuple(s) == [t |-> "tuple", v |-> s, o |-> 0]

\* a list object of which only the type matters
PyListOf(s) == [t |-> "list", v |-> s, o |-> 0]

RECURSIVE PyCmp(_, _)
RECURSIVE CmpFrom(_, _, _)

\* x compared with y: "lt", "eq", "gt", or "ne" when x and y are unequal
\* and x < y raises TypeError (None against a number)
PyCmp(x, y) ==
    IF IsInstanceInt(x) /\ IsInstanceInt(y)
    THEN (IF x.v < y.v THEN "lt" ELSE IF x.v = y.v THEN "eq" ELSE "gt")
    ELSE IF x.t = "null" /\ y.t = "null" THEN "eq"
    ELSE IF x.t = "tuple" /\ y.t = "tuple" THEN CmpFrom(x.v, y.v, 1)
    ELSE "ne"

\* tuples compare by their first unequal elements, then by length
CmpFrom(s1, s2, i) ==
    IF i > Len(s1) \/ i > Len(s2)
    THEN (IF Len(s1) < Len(s2) THEN "lt"
          ELSE IF Len(s1) = Len(s2) THEN "eq" ELSE "gt")
    ELSE IF PyCmp(s1[i], s2[i]) = "eq" THEN CmpFrom(s1, s2, i + 1)
    ELSE PyCmp(s1[i], s2[i])

big == 1000000000

\* faulty variant: the sentinel alone stands for None
sort_key_no_flags(k) ==
    PyTuple(<<PyInt(0), IF k[1].t # "null" THEN k[1] ELSE PyInt(big),
              PyInt(0), IF k[2].t # "null" THEN k[2] ELSE PyInt(big)>>)

\* a, r = k; (1 if a is None else 0, a if a is not None else big, ...)
sort_key(k) ==
    PyTuple(<<PyInt(IF k[1].t = "null" THEN 1 ELSE 0),
              IF k[1].t # "null" THEN k[1] ELSE PyInt(big),
              PyInt(IF k[2].t = "null" THEN 1 ELSE 0),
              IF k[2].t # "null" THEN k[2] ELSE PyInt(big)>>)

\* sorted raises TypeError when two of the keys cannot be ordered
SortRaises(xs) ==
    \E i, j \in 1..Len(xs) :
        i # j /\ PyCmp(sort_key(xs[i]), sort_key(xs[j])) = "ne"

\* x goes after every element whose key is not greater (the sort is stable)
InsertByKey(ys, x) ==
    LET p == Cardinality({i \in 1..Len(ys) :
                             PyCmp(sort_key(x), sort_key(ys[i])) # "lt"})
    IN SubSeq(ys, 1, p) \o <<x>> \o SubSeq(ys, p + 1, Len(ys))

RECURSIVE SortFrom(_, _)
SortFrom(ys, xs) ==
    IF xs = <<>> THEN ys ELSE SortFrom(InsertByKey(ys, Head(xs)), Tail(xs))

\* sorted(xs, key=_sort_key) when it does not raise
SortedByKey(xs) == SortFrom(<<>>, xs)

----------------------------------------------------------------------------
(* Ordering contexts with _sort_key                                        *)

MaxKeys == 3

SortVals == {None, PyInt(big)} \cup {PyInt(i) : i \in 1..MaxAttempt}

Contexts == SortVals \X SortVals

\* the contexts of the documented example
Example ==
    {<<PyInt(2), PyInt(1)>>, <<PyInt(1), None>>, <<None, PyInt(5)>>,
     <<PyInt(1), PyInt(1)>>}

\* the iteration orders of a mapping with the keys S
Orderings(S) ==
    {f \in [1..Cardinality(S) -> S] : \A i, j \in DOMAIN f : f[i] = f[j] => i = j}

InitSort ==
    /\ \/ \E f \in [1..MaxKeys -> Contexts] : ctxs = {f[i] : i \in 1..MaxKeys}
       \/ ctxs = Example
    /\ listing = <<>>
    /\ IdleTrav /\ IdleBatch /\ IdleMet
    /\ IdlePit /\ IdleCsv

\* the contexts are sorted from any iteration order
SortContexts ==
    /\ listing = <<>>
    /\ \E f \in Orderings(ctxs) : listing' = SortedByKey(f)
    /\ UNCHANGED <<ctxs, travVars, batchVars, metVars>>
    /\ UNCHANGED <<pitVars, csvVars>>

NextSort == SortContexts

SpecSort == InitSort /\ [][NextSort]_vars

----------------------------------------------------------------------------
(* main: the batch over the paths of the CSV                               *)

MaxRows == 3

CR == 13

\* the characters of the string with a given code: some contain "\r"
TextOf(c) ==
    IF c % 2 = 0 THEN <<100 + c, CR, 10, CR, 100 + c>> ELSE <<100 + c>>

\* str.replace("\r", "")
StripCR(text) == SelectSeq(text, LAMBDA ch : ch # CR)

RECURSIVE Strip(_)
\* str.strip(): leading and trailing blanks removed
Strip(cell) ==
    IF cell = <<>> THEN <<>>
    ELSE IF Head(cell) = " " THEN Strip(Tail(cell))
    ELSE IF cell[Len(cell)] = " " THEN Strip(SubSeq(cell, 1, Len(cell) - 1))
    ELSE cell

\* str(x) of a context component
Render(x) ==
    IF x.t = "null" THEN [s |-> "None", n |-> 0]
    ELSE IF x.t = "bool" THEN [s |-> (IF x.v = 1 THEN "True" ELSE "False"), n |-> 0]
    ELSE [s |-> "int", n |-> x.v]

\* the lines written; i is the position of the document they belong to
Header(i, base) == [k |-> "PATH", i |-> i, path |-> base \o <<"/records.json">>]

AttemptLine(i, key) ==
    [k |-> "attempt", i |-> i, attempt |-> Render(key[1]), round |-> Render(key[2])]

TypeLine(i, etype) == [k |-> "errorType", i |-> i, etype |-> etype]

MessageLine(i, msg) == [k |-> "message", i |-> i, text |-> StripCR(TextOf(msg))]

EmptyLine(i) == [k |-> "empty", i |-> i]

\* lines 178-180 for the entries of one group, in order
EntryLines(i, entries) ==
    [j \in 1..(3 * Len(entries)) |->
        LET e == entries[(j + 2) \div 3]
        IN IF j % 3 = 1 THEN TypeLine(i, e[1])
           ELSE IF j % 3 = 2 THEN MessageLine(i, e[2])
           ELSE EmptyLine(i)]

\* faulty variant: the attempt line is repeated before every entry
GroupLinesPerEntry(i, item) ==
    [j \in 1..(4 * Len(item[2].v)) |->
        IF j % 4 = 1 THEN AttemptLine(i, item[1].v)
        ELSE EntryLines(i, item[2].v)[j - 1 - (j - 1) \div 4]]

\* lines 175-181 for one item (key, entries) of the sorted items
GroupLines(i, item) == <<AttemptLine(i, item[1].v)>> \o EntryLines(i, item[2].v)

RECURSIVE DocLines(_, _)
DocLines(i, items) ==
    IF items = <<>> THEN <<>>
    ELSE GroupLines(i, Head(items)) \o DocLines(i, Tail(items))

RECURSIVE CountEntries(_)
CountEntries(items) ==
    IF items = <<>> THEN 0 ELSE Len(Head(items)[2].v) + CountEntries(Tail(items))

\* grouped.items(): (key, entries) pairs in insertion order
Items(s) == [g \in 1..Len(s) |-> <<PyTuple(s[g].key), PyListOf(s[g].entries)>>]

\* faulty variant: a missing or unparsable file is not caught
LoadedUnchecked(file) == IF file.kind = "doc" THEN "doc" ELSE "raise"

\* lines 113-120: a missing or unparsable file gives the empty result
Loaded(file) == IF file.kind = "doc" THEN "doc" ELSE "empty"

\* faulty variant: the previous document's groups are kept
ReusedGrouped(prev) == prev

\* line 112: grouped = defaultdict(list)
NewGrouped(prev) == <<>>

\* lines 149-158
ReadCsv ==
    /\ pc = "csv"
    /\ paths' = LET kept == SelectSeq(csvRows, LAMBDA r : Strip(r.cell) # <<>>)
                IN [j \in 1..Len(kept) |->
                       [base |-> Strip(kept[j].cell), file |-> kept[j].file]]
    /\ idx' = 1
    /\ pc' = "open"
    /\ UNCHANGED <<csvRows, blank, out_f, total_msgs, groupedLog>>
    /\ UNCHANGED <<travVars, sortVars, metVars>>
    /\ UNCHANGED <<pitVars, csvVars>>

\* lines 166-168 and 106-122: the document is loaded and the loop entered
OpenDocument ==
    /\ pc = "open"
    /\ idx <= Len(paths)
    /\ IF Loaded(paths[idx].file) = "doc"
       THEN /\ heap' = paths[idx].file.heap
            /\ stack' = <<Triple(Ref(1), None, None)>>
            /\ pc' = "walk"
       ELSE /\ heap' = <<>>
            /\ stack' = <<>>
            /\ pc' = IF Loaded(paths[idx].file) = "empty" THEN "walk" ELSE "raised"
    /\ seen' = {}
    /\ sink' = NewGrouped(sink)
    /\ order' = <<>>
    /\ emitted' = <<>>
    /\ UNCHANGED <<csvRows, blank, paths, idx, out_f, total_msgs, groupedLog>>
    /\ UNCHANGED <<sortVars, metVars>>
    /\ UNCHANGED <<pitVars, csvVars>>

\* lines 171-184 when sorted() returns
WriteDocument ==
    /\ pc = "walk" /\ stack = <<>> /\ idx \in 1..Len(paths)
    /\ ~SortRaises(Items(sink))
    /\ out_f' = out_f \o <<Header(idx, paths[idx].base)>>
                     \o DocLines(idx, SortedByKey(Items(sink)))
                     \o (IF blank /\ idx # Len(paths) THEN <<EmptyLine(idx)>> ELSE <<>>)
    /\ total_msgs' = total_msgs + CountEntries(Items(sink))
    /\ groupedLog' = Append(groupedLog, sink)
    /\ idx' = idx + 1
    /\ pc' = "open"
    /\ UNCHANGED <<csvRows, blank, paths>>
    /\ UNCHANGED <<travVars, sortVars, metVars>>
    /\ UNCHANGED <<pitVars, csvVars>>

\* lines 171-174 when sorted() raises TypeError: main is left
SortTypeError ==
    /\ pc = "walk" /\ stack = <<>> /\ idx \in 1..Len(paths)
    /\ SortRaises(Items(sink))
    /\ out_f' = out_f \o <<Header(idx, paths[idx].base)>>
    /\ groupedLog' = Append(groupedLog, sink)
    /\ pc' = "raised"
    /\ UNCHANGED <<csvRows, blank, paths, idx, total_msgs>>
    /\ UNCHANGED <<travVars, sortVars, metVars>>
    /\ UNCHANGED <<pitVars, csvVars>>

\* line 186: the loop is over
Finish ==
    /\ pc = "open" /\ idx > Len(paths)
    /\ pc' = "exit"
    /\ UNCHANGED <<csvRows, blank, paths, idx, out_f, total_msgs, groupedLog>>
    /\ UNCHANGED <<travVars, sortVars, metVars>>
    /\ UNCHANGED <<pitVars, csvVars>>

NextBatch ==
    \/ ReadCsv \/ OpenDocument \/ PopSeen \/ VisitDict \/ VisitList
    \/ VisitScalar \/ WriteDocument \/ SortTypeError \/ Finish

\* the file a path names
FileMissing == [kind |-> "missing", heap |-> <<>>]

FileUnparsable == [kind |-> "unparsable", heap |-> <<>>]

DocFile(h) == [kind |-> "doc", heap |-> h]

\* {"errorType": "E", "errorMessage": ["m1", 7, "m2", 7]}
DocA ==
    Build(Shape(1, << <<>>, <<>> >>,
                [i \in 1..1 |-> DictProf(<<Absent, Absent>>, <<"str", "list">>)],
                NoAlias))

\* {"attempt": 1, "round": 1, pair, "k2": {"round": null, pair}}
DocC ==
    Build(Shape(2, <<[c \in 2..2 |-> 1], [c \in 2..2 |-> "kid"]>>,
                [i \in 1..2 |-> IF i = 1 THEN DictProf(<<PyInt(1), PyInt(1)>>, OwnPair)
                                ELSE DictProf(<<Absent, None>>, OwnPair)],
                NoAlias))

NameOf(file) ==
    IF file.kind = "missing" THEN "m"
    ELSE IF file.kind = "unparsable" THEN "u"
    ELSE IF file.heap = DocA THEN "a"
    ELSE IF file.heap = DocC THEN "c"
    ELSE "d"

\* a CSV row: the path cell as written, and the records.json it names
Row(padded, file) ==
    [cell |-> IF padded THEN <<" ", NameOf(file), " ">> ELSE <<NameOf(file)>>,
     file |-> file]

BlankRows == {[cell |-> c, file |-> FileMissing] : c \in {<<>>, <<" ">>}}

SmallRows ==
    BlankRows
    \cup {Row(padded, f) : padded \in BOOLEAN,
              f \in {FileMissing, FileUnparsable, DocFile(DocA), DocFile(DocC)}}

\* context fields of the children of the root, as (attempt, round)
KidCtx ==
    {<<PyInt(a), Absent>> : a \in 1..MaxAttempt}
    \cup {<<PyInt(1), PyInt(1)>>, <<PyBool(1), Absent>>}

\* the profiles of a root with or without an own pair, and of children that
\* each carry a context and an own pair
WriteProfs(n) ==
    {f \in [1..n -> {DictProf(<<Absent, Absent>>, e) : e \in ErrBase}
                     \cup {DictProf(c, OwnPair) : c \in KidCtx}] :
        /\ f[1].att = Absent
        /\ \A i \in 2..n : f[i].att # Absent}

\* documents whose children all hang under the root
WriteDocs(m) ==
    UNION {{Build(Shape(n, <<[c \in 2..n |-> 1], [c \in 2..n |-> "kid"]>>, f, NoAlias)) :
               f \in WriteProfs(n)} : n \in 1..m}

\* batches of a few rows over a few files, and batches whose first document
\* has several groups
InitBatch ==
    /\ \/ \E n \in 1..MaxRows : csvRows \in [1..n -> SmallRows]
       \/ \E h \in WriteDocs(MaxNodes), tail \in {<<>>, <<Row(FALSE, DocFile(DocA))>>} :
              csvRows = <<Row(FALSE, DocFile(h))>> \o tail
    /\ blank \in BOOLEAN
    /\ paths = <<>> /\ idx = 0 /\ pc = "csv"
    /\ out_f = <<>> /\ total_msgs = 0 /\ groupedLog = <<>>
    /\ IdleTrav /\ IdleSort /\ IdleMet
    /\ IdlePit /\ IdleCsv

SpecBatch == InitBatch /\ [][NextBatch]_vars

----------------------------------------------------------------------------
(* tools/collect_quality_metrics.py: main.  A report given on the command  *)
(* line is "none" (option absent), "missing" (no such file), "ok" or "bad" *)
(* (a file that parses or does not); a report at a default location is    *)
(* "absent", "ok" or "bad".                                                *)

NoPath == [at |-> "none", of |-> "none"]

GivenPath(kind) == [at |-> "given", of |-> kind]

DefaultPath(kind) == [at |-> "default", of |-> kind]

\* the state of the file a path names
FileState(a, d, path) ==
    IF path.at = "default" THEN d[path.of]
    ELSE IF path.of = "pit" THEN (IF a.pit = "missing" THEN "absent" ELSE a.pit)
    ELSE (IF a.jacoco.st = "missing" THEN "absent" ELSE a.jacoco.st)

\* os.path.isfile
IsFile(a, d, path) == path.at # "none" /\ FileState(a, d, path) # "absent"

\* the candidates find_idflakies_reports(root) returns: none, or some of
\* which at least one can be parsed ("ok") or none can ("bad")
find_idflakies_reports(d) == d.idflakies

\* auto_detect_reports: (pit_path, jacoco_path, idflakies_candidates)
auto_detect_reports(d) ==
    [pit |-> IF d.pit # "absent" THEN DefaultPath("pit") ELSE NoPath,
     jacoco |-> IF d.jacoco_csv # "absent" THEN DefaultPath("jacoco_csv")
                ELSE IF d.jacoco_xml # "absent" THEN DefaultPath("jacoco_xml")
                ELSE NoPath,
     idflakies |-> [at |-> "list", of |-> find_idflakies_reports(d)]]

\* truth value of a path or candidate list
Truthy(x) == x.at # "none" /\ ~(x.at = "list" /\ x.of = "absent")

\* faulty variant: the file is parsed without the isfile test
parse_pit_unchecked(a, d, path) ==
    IF FileState(a, d, path) = "ok" THEN "metrics" ELSE "error"

\* lines 32-38 and 329-332: parse_pit_mutations gives null for a path that is no
\* file, the error record when parsing raises
parse_pit_mutations(a, d, path) ==
    IF ~IsFile(a, d, path) THEN "null"
    ELSE IF FileState(a, d, path) = "ok" THEN "metrics" ELSE "error"

\* jacoco_path.endswith('.csv')
EndsWithCsv(a, path) ==
    IF path.at = "default" THEN path.of = "jacoco_csv" ELSE a.jacoco.ext = "csv"

\* lines 90-92 and 339-342: null for a path that is no file, the error
\* record when reading raises
parse_jacoco_csv(a, d, path) ==
    IF ~IsFile(a, d, path) THEN "null"
    ELSE IF FileState(a, d, path) = "ok" THEN "metrics" ELSE "error"

\* lines 336-376: parse_jacoco_csv for a .csv path, else the XML branch,
\* which leaves the section null when the path is no file
jacoco_section(a, d, path) ==
    IF ~Truthy(path) THEN "null"
    ELSE IF EndsWithCsv(a, path) THEN parse_jacoco_csv(a, d, path)
    ELSE IF ~IsFile(a, d, path) THEN "null"
    ELSE IF FileState(a, d, path) = "ok" THEN "metrics" ELSE "error"

\* parse_idflakies_candidates: null when nothing could be parsed
parse_idflakies_candidates(state) == IF state = "ok" THEN "metrics" ELSE "null"

\* lines 380-397
idflakies_section(a, d, input) ==
    IF Truthy(input)
    THEN (IF input.at = "list" THEN parse_idflakies_candidates(input.of)
          ELSE IF a.idflakies \in {"missing", "dir_empty"} THEN "null"
          ELSE parse_idflakies_candidates(IF a.idflakies \in {"ok", "dir_ok"}
                                          THEN "ok" ELSE "bad"))
    ELSE (IF find_idflakies_reports(d) # "absent"
          THEN parse_idflakies_candidates(find_idflakies_reports(d))
          ELSE "null")

GivenStates == {"none", "missing", "ok", "bad"}

DiskStates == {"absent", "ok", "bad"}

InitMetrics ==
    /\ args \in [pit : GivenStates,
                  jacoco : {[st |-> "none", ext |-> "csv"]}
                           \cup [st : {"missing", "ok", "bad"}, ext : {"csv", "xml"}],
                  idflakies : GivenStates \cup {"dir_empty", "dir_ok"}]
    /\ disk \in [pit : DiskStates, jacoco_csv : DiskStates,
                  jacoco_xml : {"absent", "ok"}, idflakies : DiskStates]
    /\ step = "args"
    /\ chosen = [pit_path |-> NoPath, jacoco_path |-> NoPath, idflakies_input |-> NoPath]
    /\ result = [pit |-> "unset", jacoco |-> "unset", idflakies |-> "unset",
                 printed |-> FALSE]
    /\ IdleTrav /\ IdleBatch /\ IdleSort
    /\ IdlePit /\ IdleCsv

\* lines 296-306: the given paths, completed by auto-detection when no PIT
\* report is given or the given one is no file
ChoosePaths ==
    /\ step = "args"
    /\ LET given == [pit_path |-> IF args.pit = "none" THEN NoPath ELSE GivenPath("pit"),
                     jacoco_path |-> IF args.jacoco.st = "none" THEN NoPath
                                     ELSE GivenPath("jacoco"),
                     idflakies_input |-> IF args.idflakies = "none" THEN NoPath
                                         ELSE GivenPath("idflakies")]
           det == auto_detect_reports(disk)
       IN chosen' =
            IF ~Truthy(given.pit_path) \/ ~IsFile(args, disk, given.pit_path)
            THEN [pit_path |-> IF Truthy(given.pit_path) THEN given.pit_path ELSE det.pit,
                  jacoco_path |-> IF Truthy(given.jacoco_path) THEN given.jacoco_path
                                  ELSE det.jacoco,
                  idflakies_input |-> IF Truthy(given.idflakies_input)
                                      THEN given.idflakies_input ELSE det.idflakies]
            ELSE given
    /\ step' = "pit"
    /\ UNCHANGED <<args, disk, result, travVars, batchVars, sortVars>>
    /\ UNCHANGED <<pitVars, csvVars>>

\* lines 328-333
PitSection ==
    /\ step = "pit"
    /\ result' = [result EXCEPT !.pit =
                     IF Truthy(chosen.pit_path)
                     THEN parse_pit_mutations(args, disk, chosen.pit_path)
                     ELSE "null"]
    /\ step' = "jacoco"
    /\ UNCHANGED <<args, disk, chosen, travVars, batchVars, sortVars>>
    /\ UNCHANGED <<pitVars, csvVars>>

\* lines 335-377
JacocoSection ==
    /\ step = "jacoco"
    /\ result' = [result EXCEPT !.jacoco = jacoco_section(args, disk, chosen.jacoco_path)]
    /\ step' = "idflakies"
    /\ UNCHANGED <<args, disk, chosen, travVars, batchVars, sortVars>>
    /\ UNCHANGED <<pitVars, csvVars>>

\* lines 379-399
IdflakiesSection ==
    /\ step = "idflakies"
    /\ result' = [result EXCEPT !.idflakies =
                     idflakies_section(args, disk, chosen.idflakies_input)]
    /\ step' = "print"
    /\ UNCHANGED <<args, disk, chosen, travVars, batchVars, sortVars>>
    /\ UNCHANGED <<pitVars, csvVars>>

\* lines 405-412: the JSON summary is written
PrintSummary ==
    /\ step = "print"
    /\ result' = [result EXCEPT !.printed = TRUE]
    /\ step' = "csv"
    /\ UNCHANGED <<args, disk, chosen, travVars, batchVars, sortVars>>
    /\ UNCHANGED <<pitVars, csvVars>>

\* lines 414-420: the CSV summary is appended, or the failure reported
CsvSummary ==
    /\ step = "csv"
    /\ step' = "exit"
    /\ UNCHANGED <<args, disk, chosen, result, travVars, batchVars, sortVars>>
    /\ UNCHANGED <<pitVars, csvVars>>

NextMetrics ==
    \/ ChoosePaths \/ PitSection \/ JacocoSection \/ IdflakiesSection
    \/ PrintSummary \/ CsvSummary

SpecMetrics == InitMetrics /\ [][NextMetrics]_vars

----------------------------------------------------------------------------
(* tools/collect_quality_metrics.py: parse_pit_mutations.  A mutation      *)
(* element is [status, detected, mutated]: its status and detected         *)
(* attributes ("" when absent) and its mutatedClass; its sourceFile is the *)
(* file of that class.                                                     *)

MaxMutations == 3

\* str.upper() on the status values that occur
Upper(x) == IF x = "killed" THEN "KILLED" ELSE x

\* str.lower() on the detected values and class names that occur
Lower(x) ==
    IF x = "Yes" THEN "yes"
    ELSE IF x = "TRUE" THEN "true"
    ELSE IF x = "pkg.Foo" THEN "pkg.foo"
    ELSE IF x = "pkg.Bar" THEN "pkg.bar"
    ELSE x

\* mutated.split('.')[-1].lower()
SimpleLower(x) == IF x = "pkg.Foo" THEN "foo" ELSE IF x = "pkg.Bar" THEN "bar" ELSE Lower(x)

\* lines 50-56: the mutation is counted when no target is set or it matches
Included(t, m) ==
    t = "none" \/ t = Lower(m.mutated) \/ t = SimpleLower(m.mutated)

\* lines 58-73: the counter a counted mutation goes to
Bucket(m) ==
    IF Upper(m.status) = "KILLED" THEN "killed"
    ELSE IF Upper(m.status) = "SURVIVED" THEN "survived"
    ELSE IF Upper(m.status) = "NO_COVERAGE" THEN "no_coverage"
    ELSE IF m.detected # "" /\ Lower(m.detected) \in {"true", "yes"} THEN "killed"
    ELSE "survived"

RECURSIVE CountMutations(_, _, _)
\* the loop of lines 45-73 from the counters c over the mutations ms
CountMutations(c, t, ms) ==
    IF ms = <<>> THEN c
    ELSE IF ~Included(t, Head(ms)) THEN CountMutations(c, t, Tail(ms))
    ELSE CountMutations([c EXCEPT !.total = @ + 1, ![Bucket(Head(ms))] = @ + 1],
                        t, Tail(ms))

\* faulty variant: uncovered mutations enter the denominator
all_mutations(killed, survived, no_coverage) == killed + survived + no_coverage

\* line 75: covered_mutations = killed + survived
covered_mutations(killed, survived, no_coverage) == killed + survived

\* round(x, 2) of the quotient n / d, in hundredths
Round2(n, d) == (2 * 100 * n + d) \div (2 * d)

\* lines 75-78 and 86: score_pct in hundredths of a percent, or "null"
score_pct(c) ==
    LET covered == covered_mutations(c.killed, c.survived, c.no_coverage)
    IN IF covered > 0
       THEN [null |-> FALSE, h |-> Round2(c.killed * 100, covered)]
       ELSE [null |-> TRUE, h |-> 0]

\* the record returned for a report that parses
parse_mutations(t, ms) ==
    LET c == CountMutations([total |-> 0, killed |-> 0, survived |-> 0,
                             no_coverage |-> 0], t, ms)
    IN [total |-> c.total, killed |-> c.killed, survived |-> c.survived,
        no_coverage |-> c.no_coverage, score_pct |-> score_pct(c)]

MutationKinds ==
    {[status |-> st, detected |-> "", mutated |-> cls] :
        st \in {"KILLED", "killed", "SURVIVED", "NO_COVERAGE", ""},
        cls \in {"pkg.Foo", "pkg.Bar"}}
    \cup {[status |-> st, detected |-> dt, mutated |-> cls] :
             st \in {"TIMED_OUT"}, dt \in {"true", "Yes", "false"},
             cls \in {"pkg.Foo", "pkg.Bar"}}

InitPit ==
    /\ \E n \in 0..MaxMutations : mutations \in [1..n -> MutationKinds]
    /\ target \in {"none", "foo"}
    /\ pit = <<>>
    /\ IdleTrav /\ IdleBatch /\ IdleSort /\ IdleMet /\ IdleCsv

\* lines 40-87
ParsePit ==
    /\ pit = <<>>
    /\ pit' = parse_mutations(target, mutations)
    /\ UNCHANGED <<mutations, target>>
    /\ UNCHANGED <<travVars, batchVars, sortVars, metVars, csvVars>>

NextPit == ParsePit

SpecPit == InitPit /\ [][NextPit]_vars

----------------------------------------------------------------------------
(* tools/collect_quality_metrics.py: write_csv_summary.  A directory is    *)
(* the sequence of its path components below the project root; csvDir is  *)
(* os.path.dirname(csv_path), <<>> when csv_path has no directory part.    *)

MaxRuns == 3

\* dt_path: os.path.join(proj, '.dtfixingtools')
Dt == <<".dtfixingtools">>

IsPrefix(p, q) == Len(p) <= Len(q) /\ SubSeq(q, 1, Len(p)) = p

\* line 547: abs_d.startswith(os.path.abspath(dt_path) + os.sep)
UnderDt(d) == Len(d) > Len(Dt) /\ IsPrefix(Dt, d)

\* the directories os.makedirs(d, exist_ok=True) makes sure exist
Ancestors(d) == {SubSeq(d, 1, k) : k \in 1..Len(d)}

CsvHeader == [kind |-> "header", run |-> 0]

\* the data row of run k
CsvRow(k) == [kind |-> "row", run |-> k]

\* faulty variant: the header is written by every run
WriteHeaderAlways(exists) == TRUE

\* line 554: write_header = not os.path.exists(csv_path)
WriteHeader(exists) == ~exists

\* lines 556-560: the file after a run has appended to it
Appended(f, k) ==
    [exists |-> TRUE,
     rows |-> f.rows \o (IF WriteHeader(f.exists) THEN <<CsvHeader>> ELSE <<>>)
                     \o <<CsvRow(k)>>]

CsvDirs == {<<>>, <<"tools">>, Dt, Dt \o <<"out">>, <<".dtfixingtools2">>}

\* the sets of directories that may exist below the root
DirStates ==
    {D \in SUBSET (CsvDirs \ {<<>>}) : \A d \in D : Ancestors(d) \subseteq D}

InitCsv ==
    /\ csvDir \in CsvDirs
    /\ dirs \in DirStates
    /\ existed \in {e \in BOOLEAN : e => (csvDir = <<>> \/ csvDir \in dirs)}
    /\ csvFile \in (IF existed
                     THEN {[exists |-> TRUE, rows |-> r] :
                              r \in {<<>>, <<CsvHeader, CsvRow(0)>>}}
                     ELSE {[exists |-> FALSE, rows |-> <<>>]})
    /\ runs = 0
    /\ made = {}
    /\ IdleTrav /\ IdleBatch /\ IdleSort /\ IdleMet /\ IdlePit

\* lines 540-560: one run reaches the end of write_csv_summary
WriteCsvSummary ==
    /\ runs < MaxRuns
    /\ runs' = runs + 1
    /\ IF csvDir # <<>> /\ UnderDt(csvDir)
       THEN UNCHANGED <<dirs, csvFile, made>>
       ELSE /\ dirs' = IF csvDir # <<>> /\ csvDir \notin dirs
                       THEN dirs \cup Ancestors(csvDir) ELSE dirs
            /\ made' = made \cup (dirs' \ dirs)
            /\ csvFile' = Appended(csvFile, runs + 1)
    /\ UNCHANGED <<csvDir, existed>>
    /\ UNCHANGED <<travVars, batchVars, sortVars, metVars, pitVars>>

NextCsv == WriteCsvSummary

SpecCsv == InitCsv /\ [][NextCsv]_vars

----------------------------------------------------------------------------
(* Message expansion and lazy groups                                       *)

RECURSIVE StringCodes(_)
\* the codes of the string elements of a sequence of values, in order
StringCodes(items) ==
    IF items = <<>> THEN <<>>
    ELSE (IF Head(items).t = "str" THEN <<Head(items).v>> ELSE <<>>)
         \o StringCodes(Tail(items))

\* the messages a message field stands for: the string itself, the string
\* elements of an array in array order, nothing for any other shape
Expansion(h, x) ==
    IF x.t = "str" THEN <<x.v>>
    ELSE IF x.t = "ref" /\ h[x.v].kind = "list" THEN StringCodes(h[x.v].items)
    ELSE <<>>

\* the records appended while container n was processed, in order
EmittedAt(n) == SelectSeq(emitted, LAMBDA e : e.host = n)

\* the container whose pair is read while n is processed
SourceOf(h, n) == IF UsesContainer(h, n) THEN Item(h[n], "errorMsg").v ELSE n

(* C11: the pair read at a container with a string errorType yields one    *)
(* entry for a string message, one entry per string element of an array in *)
(* array order (other elements skipped), and no entry for an absent, null, *)
(* number, boolean or object message; all entries carry the pair's         *)
(* errorType and the same context.                                         *)
MessageExpansion ==
    \A n \in Dicts(heap) :
        Processed(n) = 1 =>
            LET c == heap[SourceOf(heap, n)]
                recs == EmittedAt(n)
            IN (HasKey(c, "errorType") /\ Item(c, "errorType").t = "str") =>
                  /\ [i \in 1..Len(recs) |-> recs[i].entry[2]] =
                        Expansion(heap, Get(c, "errorMessage"))
                  /\ \A i \in 1..Len(recs) :
                        /\ recs[i].entry[1] = Item(c, "errorType").v
                        /\ recs[i].key = recs[1].key

ArrayMessageExpanded ==
    \E n \in Dicts(heap) :
        /\ Processed(n) = 1
        /\ LET c == heap[SourceOf(heap, n)]
           IN /\ HasKey(c, "errorType") /\ Item(c, "errorType").t = "str"
              /\ IsList(heap, Get(c, "errorMessage"))
              /\ Len(heap[Get(c, "errorMessage").v].items) > Len(EmittedAt(n))
              /\ Len(EmittedAt(n)) >= 2

(* C12: a context is a key of the sink exactly when an entry has been      *)
(* extracted under it; no group is empty and no context has two groups.    *)
GroupsCreatedLazily ==
    /\ \A g \in 1..Len(sink) :
          /\ sink[g].entries # <<>>
          /\ \E i \in 1..Len(emitted) : KeyEq(emitted[i].key, sink[g].key)
          /\ \A g2 \in 1..Len(sink) : KeyEq(sink[g].key, sink[g2].key) => g = g2
    /\ \A i \in 1..Len(emitted) : HasGroup(sink, emitted[i].key)

ZeroYieldPairLeavesNoGroup ==
    /\ sink = <<>>
    /\ \E n \in Dicts(heap) :
          /\ Processed(n) = 1
          /\ PairUsable(heap, Ref(SourceOf(heap, n)))
          /\ PairStrings(heap, Ref(SourceOf(heap, n))) = <<>>

----------------------------------------------------------------------------
(* Order of contexts                                                       *)

\* the specified order of one component: ascending, null after every integer
ValBefore(a, b) ==
    \/ a.t # "null" /\ b.t = "null"
    \/ a.t # "null" /\ b.t # "null" /\ a.v < b.v

\* the specified order of contexts: by attempt, ties broken by round
CtxBefore(c1, c2) ==
    \/ ValBefore(c1[1], c2[1])
    \/ PyEq(c1[1], c2[1]) /\ ValBefore(c1[2], c2[2])

ExampleSorted ==
    <<<<PyInt(1), PyInt(1)>>, <<PyInt(1), None>>, <<PyInt(2), PyInt(1)>>,
      <<None, PyInt(5)>>>>

(* C13: _sort_key gives distinct contexts distinct, ordered keys: attempt  *)
(* ascending with null after every integer, then round likewise; sorting   *)
(* by it from any iteration order of the contexts gives the one listing in *)
(* that order, and the documented example sorts as documented.             *)
SortKeyTotalOrder ==
    /\ \A c1, c2 \in ctxs :
          c1 # c2 =>
             /\ PyCmp(sort_key(c1), sort_key(c2)) \in {"lt", "gt"}
             /\ PyCmp(sort_key(c1), sort_key(c2)) = "lt" <=> CtxBefore(c1, c2)
    /\ listing # <<>> =>
          /\ Len(listing) = Cardinality(ctxs)
          /\ {listing[i] : i \in 1..Len(listing)} = ctxs
          /\ \A i, j \in 1..Len(listing) : i < j => CtxBefore(listing[i], listing[j])
          /\ ctxs = Example => listing = ExampleSorted

ExampleSortedAsDocumented == ctxs = Example /\ listing = ExampleSorted

----------------------------------------------------------------------------
(* The output of main                                                      *)

\* the lines written for the document at position i
LinesOf(i) == SelectSeq(out_f, LAMBDA l : l.i = i)

KindCount(lines, kind) == Cardinality({p \in 1..Len(lines) : lines[p].k = kind})

\* the lines of a kind among the lines written for document i
KindLines(i, kind) == SelectSeq(out_f, LAMBDA l : l.i = i /\ l.k = kind)

GroupKeys(g) == {g[n].key : n \in 1..Len(g)}

\* the blank line that separates document i from the next
Separator(i) == IF blank /\ i # Len(paths) THEN <<EmptyLine(i)>> ELSE <<>>

(* C14: for every document extracted, the attempt lines written for it are *)
(* those of its groups in the specified order: attempt ascending with null *)
(* last, then round ascending with null last.                              *)
GroupsEmittedInOrder ==
    \A i \in 1..Len(groupedLog) :
        \E f \in Orderings(GroupKeys(groupedLog[i])) :
            /\ \A p, q \in DOMAIN f : p < q => CtxBefore(f[p], f[q])
            /\ KindLines(i, "attempt") = [p \in DOMAIN f |-> AttemptLine(i, f[p])]

(* C15: extraction, ordering and writing of a document never raise.        *)
CompletesWithoutRaising == pc # "raised"

(* C16: a missing or unparsable records.json gives the empty grouped       *)
(* result without raising; its PATH header is written with no group lines, *)
(* and the loop goes on to the next document.                              *)
MissingDocumentIsEmpty ==
    /\ pc = "raised" => paths[idx].file.kind = "doc"
    /\ \A i \in 1..Len(groupedLog) :
          paths[i].file.kind # "doc" =>
             /\ groupedLog[i] = <<>>
             /\ LinesOf(i) = <<Header(i, paths[i].base)>> \o Separator(i)
             /\ idx > i

BatchContinuesAfterMissing ==
    \E i \in 1..Len(groupedLog) :
        /\ paths[i].file.kind = "missing"
        /\ i < Len(groupedLog)
        /\ groupedLog[i + 1] # <<>>
        /\ KindLines(i + 1, "message") # <<>>

(* C17: when main is over, the output holds one PATH header per non-empty  *)
(* path row, in row order, each followed by the lines of its document, and *)
(* a blank line after every document but the last when blank is set.       *)
BatchFraming ==
    pc \in {"exit", "raised"} =>
        /\ Len(paths) = Cardinality({r \in 1..Len(csvRows) : csvRows[r].cell \notin {<<>>, <<" ">>}})
        /\ SelectSeq(out_f, LAMBDA l : l.k = "PATH") =
              [i \in 1..Len(paths) |-> Header(i, paths[i].base)]
        /\ \A p, q \in 1..Len(out_f) : p < q => out_f[p].i <= out_f[q].i
        /\ \A i \in 1..Len(paths) :
              LET L == LinesOf(i)
              IN /\ L # <<>> /\ L[1].k = "PATH"
                 /\ (blank /\ i # Len(paths)) =>
                       /\ L[Len(L)].k = "empty"
                       /\ Len(L) > 1 => L[Len(L) - 1].k \in {"PATH", "empty"}
                 /\ KindCount(L, "empty") =
                       KindCount(L, "message") + Len(Separator(i))

(* C18 as stated: an attempt line is written for every entry.              *)
AttemptLinePerEntry ==
    KindCount(out_f, "attempt") = KindCount(out_f, "message")

\* the lines from position p up to the next attempt line
RECURSIVE EntryRun(_, _)
EntryRun(L, p) ==
    IF p > Len(L) \/ L[p].k \in {"attempt", "PATH"} THEN <<>>
    ELSE <<L[p]>> \o EntryRun(L, p + 1)

(* C18: for every document written, one attempt line per group, followed   *)
(* for each entry of the group, in order, by an errorType line, a message  *)
(* line holding the message without its carriage returns, and an empty     *)
(* line; the message counter is the number of message lines.               *)
AttemptLinePerGroup ==
    /\ total_msgs = KindCount(out_f, "message")
    /\ \A p \in 1..Len(out_f) :
          out_f[p].k = "message" => \A c \in 1..Len(out_f[p].text) : out_f[p].text[c] # CR
    /\ \A i \in 1..(idx - 1) :
          LET L == LinesOf(i) \o <<>>
              G == groupedLog[i]
              body == SubSeq(L, 1, Len(L) - Len(Separator(i)))
          IN /\ KindCount(L, "attempt") = Len(G)
             /\ \A g \in 1..Len(G) :
                   \E p \in 1..Len(body) :
                       /\ body[p] = [k |-> "attempt", i |-> i,
                                     attempt |-> Render(G[g].key[1]),
                                     round |-> Render(G[g].key[2])]
                       /\ LET run == EntryRun(body, p + 1)
                          IN /\ Len(run) = 3 * Len(G[g].entries)
                             /\ \A e \in 1..Len(G[g].entries) :
                                   /\ run[3 * e - 2] =
                                         [k |-> "errorType", i |-> i, etype |-> G[g].entries[e][1]]
                                   /\ run[3 * e - 1].k = "message"
                                   /\ run[3 * e - 1].text =
                                         SelectSeq(TextOf(G[g].entries[e][2]),
                                                   LAMBDA ch : ch # CR)
                                   /\ run[3 * e].k = "empty"

GroupOfTwoWritten ==
    \E i \in 1..(idx - 1) :
        /\ \E g \in 1..Len(groupedLog[i]) : Len(groupedLog[i][g].entries) >= 2
        /\ KindCount(LinesOf(i), "attempt") < KindCount(LinesOf(i), "message")
        /\ \E g \in 1..Len(groupedLog[i]) : \E e \in 1..Len(groupedLog[i][g].entries) :
              \E c \in 1..Len(TextOf(groupedLog[i][g].entries[e][2])) :
                  TextOf(groupedLog[i][g].entries[e][2])[c] = CR

(* C19: the grouped result of a document depends on that document alone:   *)
(* every traversal starts from an empty visited set, an empty sink and a   *)
(* stack holding only the root, and a file extracted at two positions of   *)
(* a batch gives the same result, whatever was processed in between.       *)
DocumentsIndependent ==
    /\ (pc = "walk" /\ order = <<>> /\ stack # <<>>) =>
          /\ seen = {} /\ sink = <<>>
          /\ stack = <<Triple(Ref(1), None, None)>>
    /\ \A i, j \in 1..Len(groupedLog) :
          paths[i].file = paths[j].file => groupedLog[i] = groupedLog[j]

SameDocumentTwice ==
    \E i, j \in 1..Len(groupedLog) :
        /\ i + 1 < j
        /\ paths[i].file = paths[j].file
        /\ paths[i].file.kind = "doc"
        /\ groupedLog[j] # <<>>

----------------------------------------------------------------------------
(* Missing reports in collect_quality_metrics                              *)

\* no PIT report exists, at the given path or at the default place
NoPitReport == args.pit \in {"none", "missing"} /\ disk.pit = "absent"

NoJacocoReport ==
    /\ args.jacoco.st \in {"none", "missing"}
    /\ disk.jacoco_csv = "absent" /\ disk.jacoco_xml = "absent"

NoIdflakiesReport ==
    args.idflakies \in {"none", "missing", "dir_empty"} /\ disk.idflakies = "absent"

(* C20: a section for which no report exists, at the given path or at the  *)
(* default location, is null in the summary, and the summary is produced.  *)
MissingReportsAreNull ==
    /\ (result.pit # "unset" /\ NoPitReport) => result.pit = "null"
    /\ (result.jacoco # "unset" /\ NoJacocoReport) => result.jacoco = "null"
    /\ (result.idflakies # "unset" /\ NoIdflakiesReport) => result.idflakies = "null"
    /\ step \in {"csv", "exit"} =>
          /\ result.printed
          /\ "unset" \notin {result.pit, result.jacoco, result.idflakies}

SummaryOfNulls ==
    /\ step = "exit" /\ result.printed
    /\ NoPitReport /\ NoJacocoReport /\ NoIdflakiesReport
    /\ args.pit = "missing" /\ args.jacoco.st = "missing" /\ args.idflakies = "missing"
    /\ result.pit = "null" /\ result.jacoco = "null" /\ result.idflakies = "null"

----------------------------------------------------------------------------
(* Default location of the JaCoCo report                                   *)

\* the JaCoCo report at the default location: jacoco.csv, else jacoco.xml
DefaultJacoco ==
    IF disk.jacoco_csv # "absent" THEN DefaultPath("jacoco_csv")
    ELSE IF disk.jacoco_xml # "absent" THEN DefaultPath("jacoco_xml")
    ELSE NoPath

(* C21: when --jacoco is not given, the JaCoCo report is the one at the    *)
(* default location, whatever --pit is and whether or not that file exists. *)
JacocoDefaultUsed ==
    (step # "args" /\ args.jacoco.st = "none") =>
        chosen.jacoco_path = DefaultJacoco

----------------------------------------------------------------------------
(* PIT counts and score                                                    *)

\* the mutations counted for the target
Counted == SelectSeq(mutations, LAMBDA m : target = "none" \/ m.mutated = "pkg.Foo")

\* the mutations counted that are not NO_COVERAGE
Covered == SelectSeq(Counted, LAMBDA m : m.status # "NO_COVERAGE")

(* C22: every counted mutation is in exactly one of killed, survived and   *)
(* no_coverage; the score is killed / (killed + survived), the same as for *)
(* the report without its NO_COVERAGE mutations, and null exactly when     *)
(* killed + survived = 0.                                                  *)
PitCountsAndScore ==
    pit # <<>> =>
        /\ pit.total = Len(Counted)
        /\ pit.total = pit.killed + pit.survived + pit.no_coverage
        /\ pit.no_coverage = Len(Counted) - Len(Covered)
        /\ pit.score_pct.null <=> pit.killed + pit.survived = 0
        /\ ~pit.score_pct.null =>
              LET d == pit.killed + pit.survived
                  e == pit.score_pct.h * d - 10000 * pit.killed
              IN 2 * e <= d /\ -2 * e <= d
        /\ pit.score_pct = parse_mutations(target, Covered).score_pct

ScoreWithUncovered ==
    /\ pit # <<>>
    /\ pit.no_coverage > 0 /\ pit.killed > 0 /\ pit.survived > 0
    /\ ~pit.score_pct.null

----------------------------------------------------------------------------
(* Order of the entries within a group                                     *)

\* the entries emitted under the key of group g, in extraction order
EmittedUnder(g) ==
    LET recs == SelectSeq(emitted, LAMBDA e : KeyEq(e.key, sink[g].key))
    IN [i \in 1..Len(recs) |-> recs[i].entry]

\* c is declared before d among the values of container p
DeclaredBefore(h, p, c, d) ==
    \E a, b \in 1..Len(Vals(h, p)) :
        a < b /\ Vals(h, p)[a] = Ref(c) /\ Vals(h, p)[b] = Ref(d)

(* C23: a group holds its entries in extraction order; among the entries   *)
(* of one group, those of a node precede those of its descendants, and     *)
(* those of a later-declared sibling precede those of an earlier-declared  *)
(* sibling.                                                                *)
GroupInLifoOrder ==
    /\ \A g \in 1..Len(sink) : sink[g].entries = EmittedUnder(g)
    /\ \A i, j \in 1..Len(emitted) :
          KeyEq(emitted[i].key, emitted[j].key) =>
              /\ emitted[j].host \in Desc(heap, emitted[i].host) => i < j
              /\ (\E p \in DOMAIN heap :
                     DeclaredBefore(heap, p, emitted[i].host, emitted[j].host))
                    => j < i

SiblingsReversed ==
    /\ stack = <<>>
    /\ \E i, j \in 1..Len(emitted) :
          /\ KeyEq(emitted[i].key, emitted[j].key)
          /\ DeclaredBefore(heap, 1, emitted[i].host, emitted[j].host)
          /\ j < i
          /\ \E k \in 1..Len(emitted) :
                emitted[k].host = 1 /\ KeyEq(emitted[k].key, emitted[i].key) /\ k < j

----------------------------------------------------------------------------
(* Context of the entries read from an errorMsg container                  *)

\* c is the context component the node with field f hands on, given the
\* inherited component inh: its own field when that is of the accepted
\* type, the inherited one when it has no such field
HostComponent(d, f, accepted, inh, c) ==
    IF HasKey(d, f) /\ Item(d, f).t \in accepted THEN c = Item(d, f)
    ELSE IF ~HasKey(d, f) THEN c = inh
    ELSE c \in {inh, Item(d, f)}

HostContext(d, inh, key) ==
    /\ HostComponent(d, "attempt", {"int"}, inh.att, key[1])
    /\ HostComponent(d, "round", {"int", "null"}, inh.rnd, key[2])

(* C24: the entries read from an errorMsg container are recorded under the *)
(* context of the containing node, its own attempt and round applied, and  *)
(* the children it pushes carry that context: attempt and round fields     *)
(* inside the container change neither.                                    *)
ContainerEntriesUnderHostContext ==
    [][(stack # <<>> /\ Top.node.t = "ref" /\ IdOf(Top.node) \notin seen
        /\ UsesContainer(heap, Top.node.v)) =>
          LET d == heap[Top.node.v]
          IN /\ Len(emitted') > Len(emitted)
             /\ \A i \in (Len(emitted) + 1)..Len(emitted') :
                   /\ emitted'[i].via = "errorMsg"
                   /\ HostContext(d, Top, emitted'[i].key)
             /\ \A i \in Len(stack)..Len(stack') :
                   /\ HostContext(d, Top, <<stack'[i].att, stack'[i].rnd>>)
                   /\ stack'[i].node # Item(d, "errorMsg")
             /\ \A g \in 1..Len(sink') :
                   \/ g <= Len(sink) /\ sink'[g].key = sink[g].key
                   \/ HostContext(d, Top, sink'[g].key)]_vars

ContainerWithOwnContext ==
    \E i \in 1..Len(emitted) :
        LET r == emitted[i]
        IN /\ r.via = "errorMsg"
           /\ Get(heap[r.host], "attempt") = PyInt(1)
           /\ Get(heap[r.src], "attempt") = PyInt(2)
           /\ Get(heap[r.src], "round") = PyInt(2)
           /\ r.key = <<PyInt(1), None>>
           /\ \E g \in 1..Len(sink) : sink[g].key = r.key /\ sink[g].entries # <<>>

----------------------------------------------------------------------------
(* A shared object and its groups                                          *)

(* C25: the entries of the pair carried by one object, reachable through   *)
(* parents with different contexts, are all recorded in one group.         *)
SharedPairInOneGroup ==
    \A i, j \in 1..Len(emitted) :
        emitted[i].src = emitted[j].src => KeyEq(emitted[i].key, emitted[j].key)

----------------------------------------------------------------------------
(* The CSV summary                                                         *)

\* the CSV directory is .dtfixingtools or lies inside it
AtOrUnderDt == IsPrefix(Dt, csvDir)

(* C26: for a CSV path that did not exist before the first run, after n    *)
(* runs the file holds one header row followed by the n data rows in run   *)
(* order.                                                                  *)
CsvAppended ==
    ~existed =>
        /\ csvFile.exists =>
              csvFile.rows = <<CsvHeader>> \o [k \in 1..runs |-> CsvRow(k)]
        /\ (runs >= 1 /\ ~AtOrUnderDt) => csvFile.exists

HeaderThenRows ==
    /\ ~existed /\ runs >= 2 /\ csvDir = <<"tools">> /\ <<"tools">> \in made
    /\ Len(csvFile.rows) = runs + 1
    /\ csvFile.rows[1] = CsvHeader /\ csvFile.rows[2] = CsvRow(1)
    /\ csvFile.rows[3] = CsvRow(2)

(* C27: no run creates .dtfixingtools or a directory beneath it; when the  *)
(* CSV directory is .dtfixingtools or lies inside it, no directory is      *)
(* created and nothing is written.                                         *)
NeverCreatesDt ==
    /\ \A d \in made : ~IsPrefix(Dt, d)
    /\ AtOrUnderDt =>
          /\ made = {}
          /\ \A i \in 1..Len(csvFile.rows) : csvFile.rows[i].run = 0

====
